---- MODULE Spec2Model ----
(***************************************************************************)
(* A model of the quiz application's submission and grading workflow      *)
(* (backend/quiz/quiz: models.py, serializers.py, views.py,               *)
(* permissions.py).                                                        *)
(*                                                                         *)
(* The database is one record, db, holding the tables as functions from   *)
(* primary key to row.  Points are floats in the code; the model counts   *)
(* them in half points (2.0 points is 4, 2.5 points is 5), which floats   *)
(* add exactly; a percentage is kept as the reduced fraction <<n, d>>.    *)
(* Timestamps are the ticks 0..MaxTime of the clock `now`.                *)
(***************************************************************************)
EXTENDS Integers, Sequences, FiniteSets, TLC

VARIABLES db, now, last, reqs

vars == <<db, now, last, reqs>>

(* ------------------------------ bounds -------------------------------- *)

MaxTime == 1
MaxQuizId == 1
MaxQuestionId == 3
MaxSubmissionId == 2
MaxAnswerId == 3
MaxAnswers == 2
MaxRequests == 2

(* ----------------------------- identities ----------------------------- *)

\* null=True columns (start_time, end_time, submitted_at, graded_at)
None == -1

Times == 0..MaxTime

Users == {"admin", "teacher", "alice"}

Submitters == {"alice"}

\* request.user.role
Role(u) ==
  CASE u = "admin" -> "admin"
    [] u = "teacher" -> "instructor"
    [] OTHER -> "student"

\* request.user.is_staff
IsStaff(u) == u \in {"admin", "teacher"}

(* ------------------------------ helpers ------------------------------- *)

Restrict(f, S) == [x \in S |-> f[x]]

Extend(f, k, v) == [x \in DOMAIN f \cup {k} |-> IF x = k THEN v ELSE f[x]]

\* validated_data.get(key, default)
Get(validated_data, key, default) ==
  IF key \in DOMAIN validated_data THEN validated_data[key] ELSE default

Max2(a, b) == IF a >= b THEN a ELSE b

Min2(a, b) == IF a <= b THEN a ELSE b

RECURSIVE Gcd(_, _)
Gcd(a, b) == IF b = 0 THEN a ELSE Gcd(b, a % b)

Abs(a) == IF a < 0 THEN 0 - a ELSE a

\* the exact value n / d of a float quotient, d # 0, in lowest terms with a
\* positive denominator
Fraction(n, d) ==
  LET g == Gcd(Abs(n), Abs(d))
      sign == IF d < 0 THEN -1 ELSE 1
  IN <<sign * (n \div g), sign * (d \div g)>>

(* ------------------------------ scoring ------------------------------- *)

ChoiceTypes == {"mcq", "truefalse"}

\* Question.options.filter(is_correct=True).values_list("id")
CorrectIds(d, q) ==
  {o \in DOMAIN d.options : d.options[o].question = q /\ d.options[o].is_correct}

\* a grading that pays when every correct option is among the chosen ones
AutoGradeMcqSuperset(question_type, points, correct_ids, chosen_ids, points_earned) ==
  IF question_type \notin ChoiceTypes
  THEN points_earned
  ELSE IF correct_ids \subseteq chosen_ids /\ Cardinality(chosen_ids) > 0
       THEN points
       ELSE 0

\* Answer.auto_grade_mcq: the points_earned it leaves on the answer
AutoGradeMcq(question_type, points, correct_ids, chosen_ids, points_earned) ==
  IF question_type \notin ChoiceTypes
  THEN points_earned
  ELSE IF correct_ids = chosen_ids /\ Cardinality(chosen_ids) > 0
       THEN points
       ELSE 0

\* Answer.auto_grade_mcq on the stored answer a, with its save()
AutoGradeAnswer(d, a) ==
  LET ans == d.answers[a]
      q == d.questions[ans.question]
  IN [d EXCEPT !.answers[a].points_earned =
        AutoGradeMcq(q.question_type, q.points, CorrectIds(d, ans.question),
                     ans.selected_options, @)]

AnswersOf(d, sub) == {a \in DOMAIN d.answers : d.answers[a].submission = sub}

RECURSIVE SumQuestionPoints(_, _)
SumQuestionPoints(d, S) ==
  IF S = {} THEN 0
  ELSE LET a == CHOOSE x \in S : TRUE
       IN d.questions[d.answers[a].question].points + SumQuestionPoints(d, S \ {a})

RECURSIVE SumPointsEarned(_, _)
SumPointsEarned(d, S) ==
  IF S = {} THEN 0
  ELSE LET a == CHOOSE x \in S : TRUE
       IN d.answers[a].points_earned + SumPointsEarned(d, S \ {a})

\* a percentage that is the bare ratio
PercentageUnscaled(earned, possible) ==
  IF possible # 0 THEN Fraction(earned, possible) ELSE <<0, 1>>

\* the percentage expression of calculate_totals
Percentage(earned, possible) ==
  IF possible # 0 THEN Fraction(earned * 100, possible) ELSE <<0, 1>>

\* QuizSubmission.calculate_totals: the three totals it sets on the row
CalculateTotals(d, sub) ==
  LET possible == SumQuestionPoints(d, AnswersOf(d, sub))
      earned == SumPointsEarned(d, AnswersOf(d, sub))
  IN [total_points_possible |-> possible,
      total_points_earned |-> earned,
      percentage |-> Percentage(earned, possible)]

(* ------------------------------ submit -------------------------------- *)

\* an active flag that is off at end_time already
IsActiveNowBeforeEnd(quiz, t) ==
  IF quiz.start_time # None /\ t < quiz.start_time THEN FALSE
  ELSE IF quiz.end_time # None /\ t >= quiz.end_time THEN FALSE
  ELSE quiz.is_published

\* Quiz.is_active_now at time t
IsActiveNow(quiz, t) ==
  IF quiz.start_time # None /\ t < quiz.start_time THEN FALSE
  ELSE IF quiz.end_time # None /\ t > quiz.end_time THEN FALSE
  ELSE quiz.is_published

\* a validate without the check of end_time
ValidateSubmissionNoEnd(quiz, t) ==
  IF ~quiz.is_published THEN "not_published"
  ELSE IF quiz.start_time # None /\ t < quiz.start_time THEN "not_started"
  ELSE "ok"

\* QuizSubmissionWriteSerializer.validate
ValidateSubmission(quiz, t) ==
  IF ~quiz.is_published THEN "not_published"
  ELSE IF quiz.start_time # None /\ t < quiz.start_time THEN "not_started"
  ELSE IF quiz.end_time # None /\ t > quiz.end_time THEN "ended"
  ELSE "ok"

SubmissionsFor(d, quiz, user) ==
  {s \in DOMAIN d.submissions :
     d.submissions[s].quiz = quiz /\ d.submissions[s].user = user}

\* a new QuizSubmission row with the model's defaults
NewSubmission(quiz, user) ==
  [quiz |-> quiz, user |-> user, submitted_at |-> None, graded_at |-> None,
   status |-> "draft", total_points_earned |-> 0, total_points_possible |-> 0,
   percentage |-> <<0, 1>>]

\* an INSERT that no constraint guards
InsertSubmissionUnchecked(d, quiz, user) ==
  [db |-> [d EXCEPT !.submissions =
                      Extend(@, d.nextId.submission, NewSubmission(quiz, user)),
                    !.nextId.submission = @ + 1],
   ok |-> TRUE, sub |-> d.nextId.submission]

\* the INSERT of a QuizSubmission row, refused by the constraint
\* unique_quiz_submission_per_user
InsertSubmission(d, quiz, user) ==
  LET id == d.nextId.submission
  IN IF SubmissionsFor(d, quiz, user) # {}
     THEN [db |-> d, ok |-> FALSE, sub |-> 0]
     ELSE [db |-> [d EXCEPT !.submissions = Extend(@, id, NewSubmission(quiz, user)),
                            !.nextId.submission = @ + 1],
           ok |-> TRUE, sub |-> id]

\* QuizSubmission.objects.get_or_create(quiz=quiz, user=user): the row it
\* returns is the in-memory object the rest of create works on
GetOrCreate(d, quiz, user) ==
  LET found == SubmissionsFor(d, quiz, user)
      ins == InsertSubmission(d, quiz, user)
      sub == IF found # {} THEN CHOOSE s \in found : TRUE ELSE ins.sub
      d1 == IF found # {} THEN d ELSE ins.db
  IN [db |-> d1, sub |-> sub, obj |-> d1.submissions[sub], created |-> found = {}]

\* a reset that keeps the old answers (a merge instead of a replace)
DeleteAnswersKept(d, sub) == d

\* submission.answers.all().delete()
DeleteAnswers(d, sub) ==
  [d EXCEPT !.answers = Restrict(@, DOMAIN @ \ AnswersOf(d, sub))]

\* a turn of the loop that pays a written answer the question's points
CreateAnswerScoresText(d, sub, ad) ==
  LET id == d.nextId.answer
      clash == \E a \in AnswersOf(d, sub) : d.answers[a].question = ad.question
      row == [submission |-> sub, question |-> ad.question,
              selected_options |-> ad.selected_options,
              text_answer |-> ad.text_answer,
              points_earned |-> IF ad.text_answer # ""
                                THEN d.questions[ad.question].points ELSE 0]
      d1 == [d EXCEPT !.answers = Extend(@, id, row), !.nextId.answer = @ + 1]
  IN IF clash
     THEN [db |-> d, ok |-> FALSE]
     ELSE [db |-> IF d.questions[ad.question].question_type \in ChoiceTypes
                  THEN AutoGradeAnswer(d1, id)
                  ELSE d1,
           ok |-> TRUE]

\* one turn of the loop of create: Answer.objects.create (points_earned at
\* its default), selected_options.set, auto_grade_mcq for a choice question.
\* The insert fails on the constraint unique_answer_per_question_per_submission.
CreateAnswer(d, sub, ad) ==
  LET id == d.nextId.answer
      clash == \E a \in AnswersOf(d, sub) : d.answers[a].question = ad.question
      row == [submission |-> sub, question |-> ad.question,
              selected_options |-> ad.selected_options,
              text_answer |-> ad.text_answer, points_earned |-> 0]
      d1 == [d EXCEPT !.answers = Extend(@, id, row), !.nextId.answer = @ + 1]
  IN IF clash
     THEN [db |-> d, ok |-> FALSE]
     ELSE [db |-> IF d.questions[ad.question].question_type \in ChoiceTypes
                  THEN AutoGradeAnswer(d1, id)
                  ELSE d1,
           ok |-> TRUE]

\* the loop of create over answers_data, stopped by the first failing insert
RECURSIVE CreateAnswers(_, _, _)
CreateAnswers(d, sub, ads) ==
  IF ads = <<>> THEN [db |-> d, ok |-> TRUE]
  ELSE LET r == CreateAnswer(d, sub, Head(ads))
       IN IF r.ok THEN CreateAnswers(r.db, sub, Tail(ads)) ELSE r

\* the end of create: submitted_at, status, calculate_totals, then save(),
\* which writes every column of the in-memory object obj
SaveSubmitted(d, sub, obj, t) ==
  LET tot == CalculateTotals(d, sub)
  IN [d EXCEPT !.submissions[sub] =
        [obj EXCEPT !.submitted_at = t,
                    !.status = "submitted",
                    !.total_points_possible = tot.total_points_possible,
                    !.total_points_earned = tot.total_points_earned,
                    !.percentage = tot.percentage]]

\* QuizSubmissionWriteSerializer.create, run to its end or to the insert that
\* raises; every statement is committed as it runs.  deleted is the number of
\* answers the reset removed.
CreateSubmission(d, user, quiz, ads, t) ==
  LET g == GetOrCreate(d, quiz, user)
      c == CreateAnswers(DeleteAnswers(g.db, g.sub), g.sub, ads)
  IN [db |-> IF c.ok THEN SaveSubmitted(c.db, g.sub, g.obj, t) ELSE c.db,
      result |-> IF c.ok THEN "ok" ELSE "integrity_error",
      sub |-> g.sub, created |-> g.created,
      deleted |-> Cardinality(AnswersOf(g.db, g.sub))]

\* POST /submissions/: validate, then create
SubmitRequest(d, user, quiz, ads, t) ==
  LET v == ValidateSubmission(d.quizzes[quiz], t)
  IN IF v # "ok"
     THEN [db |-> d, result |-> v, sub |-> 0, created |-> FALSE, deleted |-> 0]
     ELSE CreateSubmission(d, user, quiz, ads, t)

(* ------------------------------ grading ------------------------------- *)

\* QuizSubmissionViewSet.get_queryset: the rows get_object can find
VisibleSubmissions(d, user) ==
  IF ~IsStaff(user)
  THEN {s \in DOMAIN d.submissions : d.submissions[s].user = user}
  ELSE DOMAIN d.submissions

\* CanGradeQuiz.has_object_permission on a QuizSubmission.  The instructor
\* branch reads obj.quiz.created_by, and Quiz declares no created_by: the
\* read raises and the request ends in a server error.
HasObjectPermission(user) ==
  IF Role(user) = "admin" THEN "allow"
  ELSE IF Role(user) = "instructor" THEN "attribute_error"
  ELSE "deny"

\* GET /submissions/<id>/ (ModelViewSet.retrieve): get_object looks the row
\* up in the caller's queryset
RetrieveSubmission(d, user, sub) ==
  IF sub \in VisibleSubmissions(d, user) THEN "ok" ELSE "not_found"

\* a clamp that forgets the upper end
ClampLowerOnly(pts, points) == Max2(0, pts)

\* max(0.0, min(earned_map[ans.id], ans.question.points))
Clamp(pts, points) == Max2(0, Min2(pts, points))

\* a loop over every answer the overrides name, of whatever submission
ApplyGradesAnywhere(d, sub, earned_map) ==
  [d EXCEPT !.answers =
     [a \in DOMAIN d.answers |->
        IF a \in DOMAIN earned_map
        THEN [d.answers[a] EXCEPT !.points_earned =
                Clamp(earned_map[a], d.questions[d.answers[a].question].points)]
        ELSE d.answers[a]]]

\* a loop that adds the override to what the answer holds
ApplyGradesAdded(d, sub, earned_map) ==
  [d EXCEPT !.answers =
     [a \in DOMAIN d.answers |->
        IF a \in AnswersOf(d, sub) /\ a \in DOMAIN earned_map
        THEN [d.answers[a] EXCEPT !.points_earned =
                Clamp(@ + earned_map[a], d.questions[d.answers[a].question].points)]
        ELSE d.answers[a]]]

\* the loop of grade_submission over the submission's answers
ApplyGrades(d, sub, earned_map) ==
  LET graded(a) ==
        [d.answers[a] EXCEPT !.points_earned =
           Clamp(earned_map[a], d.questions[d.answers[a].question].points)]
  IN [d EXCEPT !.answers =
        [a \in DOMAIN d.answers |->
           IF a \in AnswersOf(d, sub) /\ a \in DOMAIN earned_map
           THEN graded(a)
           ELSE d.answers[a]]]

\* the end of grade_submission: graded_at, status, calculate_totals, save()
SaveGraded(d, sub, obj, t) ==
  LET tot == CalculateTotals(d, sub)
  IN [d EXCEPT !.submissions[sub] =
        [obj EXCEPT !.graded_at = t,
                    !.status = "graded",
                    !.total_points_possible = tot.total_points_possible,
                    !.total_points_earned = tot.total_points_earned,
                    !.percentage = tot.percentage]]

\* QuizSubmissionViewSet.grade_submission: get_object (lookup in the caller's
\* queryset, then the object permission), then the body.  graded is the number
\* of answers the loop wrote.
GradeSubmission(d, user, sub, earned_map, t) ==
  IF sub \notin VisibleSubmissions(d, user)
  THEN [db |-> d, result |-> "not_found", graded |-> 0]
  ELSE IF HasObjectPermission(user) = "deny"
  THEN [db |-> d, result |-> "forbidden", graded |-> 0]
  ELSE IF HasObjectPermission(user) = "attribute_error"
  THEN [db |-> d, result |-> "server_error", graded |-> 0]
  ELSE [db |-> SaveGraded(ApplyGrades(d, sub, earned_map), sub, d.submissions[sub], t),
        result |-> "ok",
        graded |-> Cardinality(AnswersOf(d, sub) \cap DOMAIN earned_map)]

(* --------------------------- quiz authoring --------------------------- *)

\* IsAuthenticated, the permission of QuizViewSet and QuizSubmissionViewSet
IsAuthenticated(user) == user \in Users

\* IsInstructorOrAdmin.has_permission
IsInstructorOrAdmin(user) ==
  IsAuthenticated(user) /\ Role(user) \in {"instructor", "admin"}

\* a points field without its validator
ValidPointsAny(points) == TRUE

\* MinValueValidator(0.0) of Question.points, run by the serializer's field
ValidPoints(points) == points >= 0

\* the points field, then QuestionWriteSerializer.validate: a body without
\* question_type is not looked at (qtype is None), whatever its options
ValidQuestion(qd) ==
  LET options == Get(qd, "options", <<>>)
  IN /\ ValidPoints(Get(qd, "points", 2))
     /\ Get(qd, "question_type", "None") \in ChoiceTypes
          => /\ options # <<>>
             /\ \E i \in DOMAIN options : options[i]

\* QuizWriteSerializer.validate
ValidWindow(start, end) == ~(start # None /\ end # None /\ end <= start)

\* Option.objects.bulk_create for one question
AddOptions(d, question, flags) ==
  LET first == d.nextId.option
      ids == first..(first + Len(flags) - 1)
  IN [d EXCEPT !.options = [o \in DOMAIN @ \cup ids |->
                              IF o \in ids
                              THEN [question |-> question, is_correct |-> flags[o - first + 1]]
                              ELSE @[o]],
               !.nextId.option = @ + Len(flags)]

\* the loop over questions_data in QuizWriteSerializer.create and update
RECURSIVE AddQuestions(_, _, _)
AddQuestions(d, quiz, qds) ==
  IF qds = <<>> THEN d
  ELSE LET id == d.nextId.question
           qd == Head(qds)
           row == [quiz |-> quiz,
                   question_type |-> Get(qd, "question_type", "mcq"),
                   points |-> Get(qd, "points", 2)]
           d1 == [d EXCEPT !.questions = Extend(@, id, row), !.nextId.question = @ + 1]
       IN AddQuestions(AddOptions(d1, id, Get(qd, "options", <<>>)), quiz, Tail(qds))

\* on_delete=CASCADE from Question: its options and the answers to it
DeleteQuestions(d, qs) ==
  [d EXCEPT !.questions = Restrict(@, DOMAIN @ \ qs),
            !.options = Restrict(@, {o \in DOMAIN @ : @[o].question \notin qs}),
            !.answers = Restrict(@, {a \in DOMAIN @ : @[a].question \notin qs})]

QuestionsOf(d, quiz) == {q \in DOMAIN d.questions : d.questions[q].quiz = quiz}

\* QuizWriteSerializer.validate and the nested QuestionWriteSerializer.validate;
\* instance is None on create
ValidQuiz(validated_data, instance) ==
  /\ ValidWindow(Get(validated_data, "start_time", instance.start_time),
                 Get(validated_data, "end_time", instance.end_time))
  /\ \A i \in DOMAIN Get(validated_data, "questions", <<>>) :
       ValidQuestion(validated_data.questions[i])

\* the column defaults of Quiz
NewQuiz == [is_published |-> FALSE, start_time |-> None, end_time |-> None]

\* the columns of a quiz after the setattr loop over validated_data
SetAttrs(row, validated_data) ==
  [is_published |-> Get(validated_data, "is_published", row.is_published),
   start_time |-> Get(validated_data, "start_time", row.start_time),
   end_time |-> Get(validated_data, "end_time", row.end_time)]

\* QuizWriteSerializer.create
CreateQuiz(d, validated_data) ==
  LET id == d.nextId.quiz
      d1 == [d EXCEPT !.quizzes = Extend(@, id, SetAttrs(NewQuiz, validated_data)),
                      !.nextId.quiz = @ + 1]
  IN AddQuestions(d1, id, Get(validated_data, "questions", <<>>))

\* QuizWriteSerializer.update: questions are replaced when the body has them
UpdateQuiz(d, quiz, validated_data) ==
  LET d1 == [d EXCEPT !.quizzes[quiz] = SetAttrs(@, validated_data)]
  IN IF "questions" \notin DOMAIN validated_data THEN d1
     ELSE AddQuestions(DeleteQuestions(d1, QuestionsOf(d1, quiz)), quiz,
                       validated_data.questions)

\* ModelViewSet.destroy with on_delete=CASCADE from Quiz: its questions (and
\* theirs), its submissions and their answers
DeleteQuiz(d, quiz) ==
  LET subs == {s \in DOMAIN d.submissions : d.submissions[s].quiz = quiz}
      d1 == DeleteQuestions(d, QuestionsOf(d, quiz))
  IN [d1 EXCEPT !.quizzes = Restrict(@, DOMAIN @ \ {quiz}),
                !.submissions = Restrict(@, DOMAIN @ \ subs),
                !.answers = Restrict(@, {a \in DOMAIN @ : @[a].submission \notin subs})]

\* QuizViewSet.publish_quiz
PublishQuiz(d, quiz, publish) == [d EXCEPT !.quizzes[quiz].is_published = publish]

(* ------------------------------ requests ------------------------------ *)

TrueFalseQ == [question_type |-> "truefalse", points |-> 4, options |-> <<TRUE, FALSE>>]

SubjectiveQ == [question_type |-> "subjective", points |-> 6, options |-> <<>>]

ShortQ == [question_type |-> "subjective", points |-> 2, options |-> <<>>]

NoCorrectQ == [question_type |-> "mcq", points |-> 2, options |-> <<FALSE>>]

OptionsOf(d, q) == {o \in DOMAIN d.options : d.options[o].question = q}

\* one entry of answers: a question, options of it, text for a subjective one
AnswerInputs(d) ==
  {[question |-> q, selected_options |-> S,
    text_answer |-> IF d.questions[q].question_type = "subjective" THEN "essay" ELSE ""] :
     q \in DOMAIN d.questions, S \in SUBSET DOMAIN d.options}

\* the entries whose selection is among the question's own options
OwnOptionInputs(d) ==
  {ad \in AnswerInputs(d) : ad.selected_options \subseteq OptionsOf(d, ad.question)}

\* answers of a POST /submissions/ body: up to MaxAnswers entries
SubmitBodies(d) == UNION {[1..n -> OwnOptionInputs(d)] : n \in 0..MaxAnswers}

\* points_awarded values: below zero, 2.5 points, far above any question
GradeValues == {-10, 5, 2000}

\* earned_map of grade_submission: answer id -> points, at most two entries
GradeBodies ==
  UNION {[S -> GradeValues] : S \in {T \in SUBSET (1..MaxAnswerId) : Cardinality(T) <= 2}}

\* what the last request was and how it ended; count is the number of
\* answers it deleted (submit) or wrote (grade)
Request(op, user, quiz, sub, result, count) ==
  [op |-> op, user |-> user, quiz |-> quiz, sub |-> sub, result |-> result,
   count |-> count]

NoRequest == Request("none", "none", 0, 0, "none", 0)

(* ------------------------------ actions ------------------------------- *)

EmptyDb ==
  [quizzes |-> <<>>, questions |-> <<>>, options |-> <<>>,
   submissions |-> <<>>, answers |-> <<>>,
   nextId |-> [quiz |-> 1, question |-> 1, option |-> 1, submission |-> 1, answer |-> 1]]

\* timezone.now() moves on
Tick ==
  /\ now < MaxTime
  /\ now' = now + 1
  /\ last' = Request("tick", "none", 0, 0, "none", 0)
  /\ UNCHANGED <<db, reqs>>

\* POST /quizzes/ (QuizViewSet.create, IsAuthenticated)
QuizCreate(user, body) ==
  /\ db.nextId.quiz <= MaxQuizId
  /\ db.nextId.question + Len(Get(body, "questions", <<>>)) - 1 <= MaxQuestionId
  /\ IF ~IsAuthenticated(user)
     THEN /\ last' = Request("quiz_create", user, 0, 0, "forbidden", 0)
          /\ UNCHANGED db
     ELSE IF ~ValidQuiz(body, NewQuiz)
     THEN /\ last' = Request("quiz_create", user, 0, 0, "validation_error", 0)
          /\ UNCHANGED db
     ELSE /\ db' = CreateQuiz(db, body)
          /\ last' = Request("quiz_create", user, db.nextId.quiz, 0, "ok", 0)
  /\ UNCHANGED <<now, reqs>>

\* PATCH /quizzes/<id>/ (QuizViewSet.partial_update, IsAuthenticated)
QuizUpdate(user, quiz, body) ==
  /\ quiz \in DOMAIN db.quizzes
  /\ db.nextId.question + Len(Get(body, "questions", <<>>)) - 1 <= MaxQuestionId
  /\ IF ~IsAuthenticated(user)
     THEN /\ last' = Request("quiz_update", user, quiz, 0, "forbidden", 0)
          /\ UNCHANGED db
     ELSE IF ~ValidQuiz(body, db.quizzes[quiz])
     THEN /\ last' = Request("quiz_update", user, quiz, 0, "validation_error", 0)
          /\ UNCHANGED db
     ELSE /\ db' = UpdateQuiz(db, quiz, body)
          /\ last' = Request("quiz_update", user, quiz, 0, "ok", 0)
  /\ UNCHANGED <<now, reqs>>

\* DELETE /quizzes/<id>/ (QuizViewSet.destroy, IsAuthenticated)
QuizDelete(user, quiz) ==
  /\ quiz \in DOMAIN db.quizzes
  /\ IF ~IsAuthenticated(user)
     THEN /\ last' = Request("quiz_delete", user, quiz, 0, "forbidden", 0)
          /\ UNCHANGED db
     ELSE /\ db' = DeleteQuiz(db, quiz)
          /\ last' = Request("quiz_delete", user, quiz, 0, "ok", 0)
  /\ UNCHANGED <<now, reqs>>

\* POST /quizzes/<id>/publish_quiz/ (IsInstructorOrAdmin)
QuizPublish(user, quiz, publish) ==
  /\ quiz \in DOMAIN db.quizzes
  /\ IF ~IsInstructorOrAdmin(user)
     THEN /\ last' = Request("publish_quiz", user, quiz, 0, "forbidden", 0)
          /\ UNCHANGED db
     ELSE /\ db' = PublishQuiz(db, quiz, publish)
          /\ last' = Request("publish_quiz", user, quiz, 0, "ok", 0)
  /\ UNCHANGED <<now, reqs>>

\* POST /submissions/ (QuizSubmissionViewSet.create, IsAuthenticated)
Submit(user, quiz, ads) ==
  /\ quiz \in DOMAIN db.quizzes
  /\ IsAuthenticated(user)
  /\ db.nextId.answer + Len(ads) - 1 <= MaxAnswerId
  /\ SubmissionsFor(db, quiz, user) = {} => db.nextId.submission <= MaxSubmissionId
  /\ LET r == SubmitRequest(db, user, quiz, ads, now)
     IN /\ db' = r.db
        /\ last' = Request("submit", user, quiz, r.sub, r.result, r.deleted)
  /\ UNCHANGED <<now, reqs>>

\* POST /submissions/<id>/grade_submission/ (CanGradeQuiz)
Grade(user, sub, earned_map) ==
  /\ LET r == GradeSubmission(db, user, sub, earned_map, now)
     IN /\ db' = r.db
        /\ last' = Request("grade", user, 0, sub, r.result, r.graded)
  /\ UNCHANGED <<now, reqs>>

\* Answer.auto_grade_mcq called once more on a stored answer
Regrade(a) ==
  /\ a \in DOMAIN db.answers
  /\ db' = AutoGradeAnswer(db, a)
  /\ last' = Request("regrade", "none", 0, db.answers[a].submission, "ok", 0)
  /\ UNCHANGED <<now, reqs>>

(* ------------------- the submission and grading workflow ---------------- *)

\* two published quizzes: quiz 1 with a true/false question (option 1 correct)
\* and a subjective one, quiz 2 with one subjective question
WorkflowDb ==
  CreateQuiz(CreateQuiz(EmptyDb,
                        [is_published |-> TRUE, questions |-> <<TrueFalseQ, SubjectiveQ>>]),
             [questions |-> <<ShortQ>>])

Init ==
  /\ db = WorkflowDb
  /\ now = 0
  /\ last = NoRequest
  /\ reqs = <<>>

Next ==
  \/ Tick
  \/ \E user \in Submitters, quiz \in DOMAIN db.quizzes, ads \in SubmitBodies(db) :
       Submit(user, quiz, ads)
  \/ \E user \in Users, sub \in 1..MaxSubmissionId, earned_map \in GradeBodies :
       Grade(user, sub, earned_map)

Spec == Init /\ [][Next]_vars

(* --------------------- claims about the workflow ------------------------ *)

\* the sum of the values of a function with a finite domain
RECURSIVE SumFn(_)
SumFn(f) ==
  IF DOMAIN f = {} THEN 0
  ELSE LET x == CHOOSE y \in DOMAIN f : TRUE
       IN f[x] + SumFn(Restrict(f, DOMAIN f \ {x}))

StatusRank(status) ==
  CASE status = "draft" -> 0 [] status = "submitted" -> 1 [] status = "graded" -> 2

\* C1: no step moves the status of a submission backward in the order
\* draft < submitted < graded.
C1_StatusNeverMovesBack ==
  [][\A s \in DOMAIN db.submissions \cap DOMAIN db'.submissions :
       StatusRank(db'.submissions[s].status) >= StatusRank(db.submissions[s].status)]_vars

\* the (question, selected options, text) entries stored for a submission
StoredEntries(d, sub) ==
  {[question |-> d.answers[a].question,
    selected_options |-> d.answers[a].selected_options,
    text_answer |-> d.answers[a].text_answer] : a \in AnswersOf(d, sub)}

BodyEntries(ads) == {ads[i] : i \in DOMAIN ads}

\* C2: whatever the submission held before, a successful submit of the body
\* ads leaves exactly the entries of ads stored, one answer per entry, and
\* totals that are the sums over those answers alone.
C2_ResubmitReplacesAll ==
  \A user \in Submitters, quiz \in DOMAIN db.quizzes, ads \in SubmitBodies(db) :
    LET r == SubmitRequest(db, user, quiz, ads, now)
        stored == AnswersOf(r.db, r.sub)
    IN r.result = "ok" =>
         /\ StoredEntries(r.db, r.sub) = BodyEntries(ads)
         /\ Cardinality(stored) = Len(ads)
         /\ stored \cap DOMAIN db.answers = {}
         /\ r.db.submissions[r.sub].total_points_possible =
              SumFn([i \in DOMAIN ads |-> db.questions[ads[i].question].points])
         /\ r.db.submissions[r.sub].total_points_earned =
              SumFn([a \in stored |-> r.db.answers[a].points_earned])

\* a re-submit has just removed two stored answers and left one
C2_Witness ==
  /\ last.op = "submit" /\ last.result = "ok" /\ last.count = 2
  /\ Cardinality(AnswersOf(db, last.sub)) = 1

\* C5: every stored answer is to a question of its submission's quiz.
C5_AnswersStayInQuiz ==
  \A a \in DOMAIN db.answers :
    db.questions[db.answers[a].question].quiz
      = db.submissions[db.answers[a].submission].quiz

\* C7: a successful grading stores, for every override (a, v) on an answer of
\* the graded submission, max(0, min(v, question.points)).
C7_GradingClamps ==
  \A user \in Users, sub \in DOMAIN db.submissions, earned_map \in GradeBodies :
    LET r == GradeSubmission(db, user, sub, earned_map, now)
    IN r.result = "ok" =>
         \A a \in AnswersOf(db, sub) \cap DOMAIN earned_map :
           LET v == earned_map[a]
               points == db.questions[db.answers[a].question].points
           IN r.db.answers[a].points_earned =
                IF v < 0 THEN 0 ELSE IF v > points THEN points ELSE v

\* a grading has just written an answer to a subjective question, which now
\* holds the question's full points: an override above them, cut down
C7_Witness ==
  /\ last.op = "grade" /\ last.result = "ok" /\ last.count >= 1
  /\ \E a \in AnswersOf(db, last.sub) :
       /\ db.questions[db.answers[a].question].question_type = "subjective"
       /\ db.answers[a].points_earned = db.questions[db.answers[a].question].points

C9_UnauthorizedGradingHasNoEffect ==
  \A user \in Users, sub \in 1..MaxSubmissionId, earned_map \in GradeBodies :
    LET r == GradeSubmission(db, user, sub, earned_map, now)
    IN Role(user) # "admin" =>
         /\ r.result \in {"not_found", "forbidden"}
         /\ r.db = db

(* ------------------------ the submission window ------------------------- *)

\* one unpublished quiz with one true/false question and no window
WindowDb == CreateQuiz(EmptyDb, [questions |-> <<TrueFalseQ>>])

\* PATCH bodies that set the window of a quiz
WindowBodies ==
  {[start_time |-> s] : s \in Times \cup {None}}
    \cup {[end_time |-> e] : e \in Times \cup {None}}
    \cup {[start_time |-> s, end_time |-> e] : s, e \in Times \cup {None}}

InitWindow ==
  /\ db = WindowDb
  /\ now = 0
  /\ last = NoRequest
  /\ reqs = <<>>

NextWindow ==
  \/ Tick
  \/ \E quiz \in DOMAIN db.quizzes, body \in WindowBodies : QuizUpdate("teacher", quiz, body)
  \/ \E user \in Users, quiz \in DOMAIN db.quizzes, publish \in BOOLEAN :
       QuizPublish(user, quiz, publish)
  \/ \E user \in Submitters, quiz \in DOMAIN db.quizzes, ads \in SubmitBodies(db) :
       Submit(user, quiz, ads)

SpecWindow == InitWindow /\ [][NextWindow]_vars

\* C4: a submit to a quiz that is unpublished, or has a start time after now,
\* or an end time before now, ends in the validation error of that case and
\* leaves the database as it was.
C4_WindowEnforced ==
  \A user \in Submitters, quiz \in DOMAIN db.quizzes, ads \in SubmitBodies(db) :
    LET q == db.quizzes[quiz]
        r == SubmitRequest(db, user, quiz, ads, now)
        unpublished == ~q.is_published
        early == q.start_time # None /\ now < q.start_time
        late == q.end_time # None /\ now > q.end_time
    IN /\ (unpublished \/ early \/ late)
            => /\ r.result \in {"not_published", "not_started", "ended"}
               /\ r.db = db
       /\ unpublished => r.result = "not_published"
       /\ (~unpublished /\ early) => r.result = "not_started"
       /\ (~unpublished /\ ~early /\ late) => r.result = "ended"

\* a submit after the end was refused as ended; the caller's earlier
\* submission and its answer are still stored
C4_Witness ==
  /\ last.op = "submit" /\ last.result = "ended"
  /\ \E s \in SubmissionsFor(db, last.quiz, last.user) : AnswersOf(db, s) # {}

(* ------------------------------ auto-grading ---------------------------- *)

\* question bodies with three options: typed ones with a correct option (the
\* serializer refuses the others), and bodies without question_type, which the
\* serializer does not look at and the column default makes mcq
ScoringQuestions ==
  {[question_type |-> ty, points |-> p, options |-> flags] :
     ty \in ChoiceTypes, p \in {0, 3}, flags \in [1..3 -> BOOLEAN]}
    \cup {[points |-> p, options |-> flags] : p \in {0, 3}, flags \in [1..3 -> BOOLEAN]}

\* a published quiz of one such question (options 1..3) and a true/false
\* question (options 4 and 5)
ScoringDbs ==
  {CreateQuiz(EmptyDb, [is_published |-> TRUE, questions |-> <<qd, TrueFalseQ>>]) :
     qd \in {x \in ScoringQuestions : ValidQuestion(x)}}

\* bodies of one entry that selects any options, the question's or not
ScoringBodies(d) == {<<ad>> : ad \in AnswerInputs(d)}

InitScoring ==
  /\ db \in ScoringDbs
  /\ now = 0
  /\ last = NoRequest
  /\ reqs = <<>>

NextScoring ==
  \/ \E user \in Submitters, quiz \in DOMAIN db.quizzes, ads \in ScoringBodies(db) :
       Submit(user, quiz, ads)
  \/ \E a \in 1..MaxAnswerId : Regrade(a)

SpecScoring == InitScoring /\ [][NextScoring]_vars

\* C6: every stored answer to a choice or true/false question holds the
\* question's points if its selection is non-empty and is exactly the set of
\* the question's options marked correct, and 0 otherwise; grading it again
\* changes nothing.
C6_AllOrNothing ==
  \A a \in DOMAIN db.answers :
    LET ans == db.answers[a]
        q == db.questions[ans.question]
        correct == {o \in DOMAIN db.options :
                      db.options[o].question = ans.question /\ db.options[o].is_correct}
    IN q.question_type \in {"mcq", "truefalse"} =>
         /\ ans.points_earned =
              IF ans.selected_options # {} /\ ans.selected_options = correct
              THEN q.points ELSE 0
         /\ AutoGradeAnswer(db, a) = db

\* a regraded answer that selects every correct option of a question worth
\* points and one option more, and earns nothing
C6_Witness ==
  /\ last.op = "regrade"
  /\ \E a \in AnswersOf(db, last.sub) :
       LET ans == db.answers[a]
           correct == CorrectIds(db, ans.question)
       IN /\ db.questions[ans.question].points > 0
          /\ correct # {}
          /\ correct \subseteq ans.selected_options
          /\ correct # ans.selected_options
          /\ ans.points_earned = 0

(* ------------------------------- authoring ------------------------------ *)

AuthoringQuestionLists == {<<>>, <<TrueFalseQ>>, <<SubjectiveQ>>, <<NoCorrectQ>>}

\* bodies of POST /quizzes/: the questions, or a window that ends at its start
CreateBodies ==
  {[questions |-> ql] : ql \in AuthoringQuestionLists}
    \cup {[start_time |-> 0, end_time |-> 0]}

\* bodies of PATCH /quizzes/<id>/
UpdateBodies ==
  {[is_published |-> p] : p \in BOOLEAN}
    \cup {[questions |-> ql] : ql \in AuthoringQuestionLists}
    \cup {[start_time |-> s, end_time |-> e] : s, e \in {None, 0}}

InitAuthoring ==
  /\ db = EmptyDb
  /\ now = 0
  /\ last = NoRequest
  /\ reqs = <<>>

NextAuthoring ==
  \/ \E user \in Users, body \in CreateBodies : QuizCreate(user, body)
  \/ \E user \in Users, quiz \in 1..MaxQuizId, body \in UpdateBodies :
       QuizUpdate(user, quiz, body)
  \/ \E user \in Users, quiz \in 1..MaxQuizId : QuizDelete(user, quiz)
  \/ \E user \in Users, quiz \in 1..MaxQuizId, publish \in BOOLEAN :
       QuizPublish(user, quiz, publish)
  \/ \E user \in Submitters, quiz \in DOMAIN db.quizzes, ads \in SubmitBodies(db) :
       Submit(user, quiz, ads)

SpecAuthoring == InitAuthoring /\ [][NextAuthoring]_vars

AuthoringOps == {"quiz_create", "quiz_update", "quiz_delete", "publish_quiz"}

\* C10: a request that creates, updates, deletes, publishes or unpublishes a
\* quiz changes the quizzes, questions or options only when its caller is an
\* administrator or an instructor (whoever owns a quiz, a student does not).
C10_AuthoringRestricted ==
  [][(/\ last'.op \in AuthoringOps
      /\ <<db'.quizzes, db'.questions, db'.options>>
           # <<db.quizzes, db.questions, db.options>>)
       => Role(last'.user) \in {"admin", "instructor"}]_vars

(* --------------------------- concurrent submits ------------------------- *)

\* A submit in flight: the statements of validate and create run one at a
\* time, each committed as it runs, and other requests run between them.
\* obj is the in-memory QuizSubmission, body the answers of the request, ads
\* the entries of it still to insert.
IdleRequest ==
  [pc |-> "idle", user |-> "none", quiz |-> 0, body |-> <<>>, ads |-> <<>>, sub |-> 0,
   obj |-> NewSubmission(0, "none"), created |-> FALSE, raced |-> FALSE,
   result |-> "none"]

Slots == 1..MaxRequests

\* the answers the requests in flight have still to insert
RECURSIVE Pending(_)
Pending(S) ==
  IF S = {} THEN 0
  ELSE LET r == CHOOSE x \in S : TRUE IN Len(reqs[r].ads) + Pending(S \ {r})

\* one published quiz with two subjective questions
ConcurrentDb ==
  CreateQuiz(EmptyDb, [is_published |-> TRUE, questions |-> <<SubjectiveQ, ShortQ>>])

\* the request arrives: permission, then validate
Begin(r, user, quiz, ads) ==
  /\ reqs[r].pc = "idle"
  /\ quiz \in DOMAIN db.quizzes
  /\ IsAuthenticated(user)
  /\ db.nextId.answer + Pending(Slots) + Len(ads) - 1 <= MaxAnswerId
  /\ LET v == ValidateSubmission(db.quizzes[quiz], now)
     IN reqs' = [reqs EXCEPT ![r] =
                   [IdleRequest EXCEPT !.pc = IF v = "ok" THEN "get" ELSE "done",
                                       !.user = user, !.quiz = quiz, !.body = ads, !.ads = ads,
                                       !.result = IF v = "ok" THEN "none" ELSE v]]
  /\ UNCHANGED <<db, now, last>>

\* get_or_create: the SELECT
StepGet(r) ==
  /\ reqs[r].pc = "get"
  /\ LET found == SubmissionsFor(db, reqs[r].quiz, reqs[r].user)
         sub == CHOOSE s \in found : TRUE
     IN reqs' = [reqs EXCEPT ![r] =
                   IF found = {}
                   THEN [@ EXCEPT !.pc = "insert"]
                   ELSE [@ EXCEPT !.pc = "delete", !.sub = sub,
                                  !.obj = db.submissions[sub]]]
  /\ UNCHANGED <<db, now, last>>

\* get_or_create: the INSERT, and on IntegrityError the SELECT again
StepInsert(r) ==
  /\ reqs[r].pc = "insert"
  /\ LET ins == InsertSubmission(db, reqs[r].quiz, reqs[r].user)
         sub == IF ins.ok THEN ins.sub
                ELSE CHOOSE s \in SubmissionsFor(db, reqs[r].quiz, reqs[r].user) : TRUE
     IN /\ db.nextId.submission <= MaxSubmissionId
        /\ db' = ins.db
        /\ reqs' = [reqs EXCEPT ![r] =
                      [@ EXCEPT !.pc = "delete", !.sub = sub,
                                !.obj = ins.db.submissions[sub],
                                !.created = ins.ok, !.raced = ~ins.ok]]
  /\ UNCHANGED <<now, last>>

\* submission.answers.all().delete()
StepDelete(r) ==
  /\ reqs[r].pc = "delete"
  /\ db' = DeleteAnswers(db, reqs[r].sub)
  /\ reqs' = [reqs EXCEPT ![r].pc = "answers"]
  /\ UNCHANGED <<now, last>>

\* one turn of the loop over answers_data
StepAnswer(r) ==
  /\ reqs[r].pc = "answers"
  /\ reqs[r].ads # <<>>
  /\ LET c == CreateAnswer(db, reqs[r].sub, Head(reqs[r].ads))
     IN /\ db' = c.db
        /\ reqs' = [reqs EXCEPT ![r] =
                      IF c.ok
                      THEN [@ EXCEPT !.ads = Tail(@)]
                      ELSE [@ EXCEPT !.pc = "done", !.ads = <<>>,
                                     !.result = "integrity_error"]]
  /\ UNCHANGED <<now, last>>

\* submitted_at, status and calculate_totals on the in-memory object
StepTotals(r) ==
  /\ reqs[r].pc = "answers"
  /\ reqs[r].ads = <<>>
  /\ LET tot == CalculateTotals(db, reqs[r].sub)
     IN reqs' = [reqs EXCEPT ![r] =
                   [@ EXCEPT !.pc = "save",
                             !.obj = [@ EXCEPT !.submitted_at = now,
                                               !.status = "submitted",
                                               !.total_points_possible = tot.total_points_possible,
                                               !.total_points_earned = tot.total_points_earned,
                                               !.percentage = tot.percentage]]]
  /\ UNCHANGED <<db, now, last>>

\* submission.save(): every column of the in-memory object is written
StepSave(r) ==
  /\ reqs[r].pc = "save"
  /\ db' = [db EXCEPT !.submissions[reqs[r].sub] = reqs[r].obj]
  /\ reqs' = [reqs EXCEPT ![r] = [@ EXCEPT !.pc = "done", !.result = "ok"]]
  /\ UNCHANGED <<now, last>>

\* the response is sent
Finish(r) ==
  /\ reqs[r].pc = "done"
  /\ last' = Request("submit", reqs[r].user, reqs[r].quiz, reqs[r].sub, reqs[r].result, 0)
  /\ reqs' = [reqs EXCEPT ![r] = IdleRequest]
  /\ UNCHANGED <<db, now>>

InitConcurrent ==
  /\ db = ConcurrentDb
  /\ now = 0
  /\ last = NoRequest
  /\ reqs = [r \in Slots |-> IdleRequest]

NextConcurrent ==
  \E r \in Slots :
    \/ \E user \in Submitters, quiz \in DOMAIN db.quizzes, ads \in SubmitBodies(db) :
         Begin(r, user, quiz, ads)
    \/ StepGet(r)
    \/ StepInsert(r)
    \/ StepDelete(r)
    \/ StepAnswer(r)
    \/ StepTotals(r)
    \/ StepSave(r)
    \/ Finish(r)

SpecConcurrent == InitConcurrent /\ [][NextConcurrent]_vars

\* C3: there is at most one submission per (quiz, user), whatever the
\* interleaving; of two requests of one user for one quiz at most one has
\* created the row, and a request whose INSERT met the constraint works on the
\* existing row and reports no error for it.
C3_OneSubmissionPerUser ==
  /\ \A quiz \in DOMAIN db.quizzes, user \in Users :
       Cardinality(SubmissionsFor(db, quiz, user)) <= 1
  /\ \A r \in Slots :
       /\ reqs[r].pc \in {"delete", "answers", "save"} \/ reqs[r].result = "ok"
            => SubmissionsFor(db, reqs[r].quiz, reqs[r].user) = {reqs[r].sub}
       /\ reqs[r].raced => ~reqs[r].created
  /\ \A r1, r2 \in Slots :
       (/\ r1 # r2 /\ reqs[r1].created /\ reqs[r2].created
        /\ reqs[r1].user = reqs[r2].user) => reqs[r1].quiz # reqs[r2].quiz

\* both requests found no row; one inserted it, the other's INSERT was
\* refused, and it has finished without error on the same row
C3_Witness ==
  \E r1, r2 \in Slots :
    /\ reqs[r1].created /\ reqs[r2].raced
    /\ reqs[r1].sub = reqs[r2].sub
    /\ reqs[r2].pc = "done" /\ reqs[r2].result = "ok"

\* C11: whatever a reader of the database sees while submits are in flight,
\* every submission's stored totals are the totals of its stored answers: no
\* state shows the answers deleted and not yet recreated, only part of the
\* new answers, or totals of answers that are gone.
C11_ReadersSeeConsistentSubmission ==
  \A sub \in DOMAIN db.submissions :
    LET tot == CalculateTotals(db, sub)
        row == db.submissions[sub]
    IN /\ row.total_points_possible = tot.total_points_possible
       /\ row.total_points_earned = tot.total_points_earned
       /\ row.percentage = tot.percentage

\* no two entries of the body name the same question
NoRepeat(ads) ==
  \A i, j \in 1..Len(ads) : i # j => ads[i].question # ads[j].question

\* C12: interleaved submits of one user to one quiz all complete: none whose
\* body names each question once ends in a uniqueness failure on
\* (submission, question); and when they have completed, the stored answers
\* are exactly the answers of one of them, with the totals of that set.
C12_ConcurrentSubmitsSerialize ==
  /\ \A r \in Slots :
       reqs[r].pc = "done" /\ NoRepeat(reqs[r].body)
         => reqs[r].result # "integrity_error"
  /\ (\A r \in Slots : reqs[r].pc = "done" /\ reqs[r].result = "ok")
       => \A r1 \in Slots :
            /\ \E r2 \in Slots :
                 /\ reqs[r2].sub = reqs[r1].sub
                 /\ StoredEntries(db, reqs[r1].sub) = BodyEntries(reqs[r2].body)
            /\ db.submissions[reqs[r1].sub].total_points_possible
                 = CalculateTotals(db, reqs[r1].sub).total_points_possible

\* C13: a submit that ends in an error, the one whose body has two entries
\* for one question included, leaves every stored submission, with its
\* totals, and its answers as they were before the call.
C13_NoPartialWritesOnError ==
  \A user \in Submitters, quiz \in DOMAIN db.quizzes, ads \in SubmitBodies(db) :
    LET r == SubmitRequest(db, user, quiz, ads, now)
    IN r.result # "ok" =>
         \A sub \in DOMAIN db.submissions :
           /\ r.db.submissions[sub] = db.submissions[sub]
           /\ Restrict(r.db.answers, AnswersOf(r.db, sub))
                = Restrict(db.answers, AnswersOf(db, sub))

\* every submission of d stores the totals calculate_totals computes from
\* the answers d holds for it
TotalsMatch(d) ==
  \A sub \in DOMAIN d.submissions :
    Restrict(d.submissions[sub],
             {"total_points_possible", "total_points_earned", "percentage"})
      = CalculateTotals(d, sub)

\* C14: a completed submit, grading or quiz update, the update that replaces
\* the quiz's questions included, keeps every submission's stored totals equal
\* to the totals of its stored answers.
C14_TotalsFollowAnswers ==
  [][(/\ last'.op \in {"submit", "grade", "quiz_update"}
      /\ last'.result = "ok"
      /\ TotalsMatch(db))
       => TotalsMatch(db')]_vars

(* ------------------------- edits under submissions --------------------- *)

\* a true/false question body with negative points
NegativeQ == [question_type |-> "truefalse", points |-> -4, options |-> <<TRUE>>]

\* one published quiz with one true/false question
EditsDb == CreateQuiz(EmptyDb, [is_published |-> TRUE, questions |-> <<TrueFalseQ>>])

\* bodies of PATCH /quizzes/<id>/ that replace the questions
EditBodies ==
  {[questions |-> ql] : ql \in {<<>>, <<TrueFalseQ>>, <<SubjectiveQ>>, <<NegativeQ>>}}

InitEdits ==
  /\ db = EditsDb
  /\ now = 0
  /\ last = NoRequest
  /\ reqs = <<>>

NextEdits ==
  \/ \E quiz \in DOMAIN db.quizzes, body \in EditBodies : QuizUpdate("teacher", quiz, body)
  \/ \E user \in Submitters, quiz \in DOMAIN db.quizzes, ads \in SubmitBodies(db) :
       Submit(user, quiz, ads)
  \/ \E sub \in 1..MaxSubmissionId, earned_map \in GradeBodies : Grade("admin", sub, earned_map)
  \/ \E a \in 1..MaxAnswerId : Regrade(a)

SpecEdits == InitEdits /\ [][NextEdits]_vars

\* C15: every stored answer holds points_earned between 0 and the points of
\* the question it answers.
C15_PointsInRange ==
  \A a \in DOMAIN db.answers :
    /\ 0 <= db.answers[a].points_earned
    /\ db.answers[a].points_earned <= db.questions[db.answers[a].question].points

\* after the quiz's questions were replaced, an override above the new
\* question's points was stored as those points
C15_Witness ==
  /\ last.op = "grade" /\ last.result = "ok" /\ last.count > 0
  /\ \E a \in AnswersOf(db, last.sub) :
       /\ db.answers[a].question > 1
       /\ db.answers[a].points_earned = db.questions[db.answers[a].question].points
       /\ db.questions[db.answers[a].question].question_type = "subjective"

(* ------------------------- more on the workflow ------------------------- *)

SubjectiveAnswers(d) ==
  {a \in DOMAIN d.answers :
     d.questions[d.answers[a].question].question_type = "subjective"}

\* C18: right after a successful submit, first or repeated, every answer of
\* the submission to a subjective question holds 0 points, and such an answer
\* goes from 0 to other points only by a successful grading.
C18_SubjectiveZeroUntilGraded ==
  /\ [](last.op = "submit" /\ last.result = "ok"
          => \A a \in AnswersOf(db, last.sub) \cap SubjectiveAnswers(db) :
               db.answers[a].points_earned = 0)
  /\ [][\A a \in SubjectiveAnswers(db) \cap DOMAIN db'.answers :
          (db.answers[a].points_earned = 0 /\ db'.answers[a].points_earned # 0)
            => last'.op = "grade" /\ last'.result = "ok"]_vars

\* a submission graded before has been submitted again, and its new answer to
\* a subjective question holds 0 points
C18_Witness ==
  /\ last.op = "submit" /\ last.result = "ok"
  /\ db.submissions[last.sub].graded_at # None
  /\ \E a \in AnswersOf(db, last.sub) \cap SubjectiveAnswers(db) :
       /\ db.answers[a].points_earned = 0
       /\ db.answers[a].text_answer # ""

\* C19: a caller who is no administrator (no instructor is entitled to a
\* quiz: Quiz declares no owner) lists only submissions of their own and
\* gets not found for a submission of another user; the administrator
\* lists, retrieves and grades every submission.
C19_OwnSubmissionsOnly ==
  \A user \in Users :
    IF Role(user) = "admin"
    THEN \A sub \in DOMAIN db.submissions :
           /\ sub \in VisibleSubmissions(db, user)
           /\ RetrieveSubmission(db, user, sub) = "ok"
           /\ GradeSubmission(db, user, sub, <<>>, now).result = "ok"
    ELSE \A sub \in DOMAIN db.submissions :
           db.submissions[sub].user # user
             => /\ sub \notin VisibleSubmissions(db, user)
                /\ RetrieveSubmission(db, user, sub) = "not_found"

\* C20: for every quiz and every time, the validation of a submit accepts
\* the quiz exactly when Quiz.is_active_now is true; a submit at start_time
\* and one at end_time are accepted.
C20_WindowAgreesWithActive ==
  \A quiz \in DOMAIN db.quizzes, t \in Times :
    LET q == db.quizzes[quiz]
    IN /\ (ValidateSubmission(q, t) = "ok") <=> IsActiveNow(q, t)
       /\ (q.is_published /\ t \in {q.start_time, q.end_time})
            => ValidateSubmission(q, t) = "ok"

\* a submit was accepted at the end_time of a published quiz whose window has
\* both ends, and the quiz is active
C20_Witness ==
  /\ last.op = "submit" /\ last.result = "ok"
  /\ db.quizzes[last.quiz].start_time # None
  /\ db.quizzes[last.quiz].end_time = now
  /\ IsActiveNow(db.quizzes[last.quiz], now)

(* ------------------------ grading beside others ------------------------ *)

\* two published quizzes with one subjective question each
GradingDb ==
  CreateQuiz(CreateQuiz(EmptyDb, [is_published |-> TRUE, questions |-> <<SubjectiveQ>>]),
             [is_published |-> TRUE, questions |-> <<ShortQ>>])

InitGrading ==
  /\ db = GradingDb
  /\ now = 0
  /\ last = NoRequest
  /\ reqs = <<>>

NextGrading ==
  \/ \E user \in Submitters, quiz \in DOMAIN db.quizzes, ads \in SubmitBodies(db) :
       Submit(user, quiz, ads)
  \/ \E sub \in 1..MaxSubmissionId, earned_map \in GradeBodies : Grade("admin", sub, earned_map)

SpecGrading == InitGrading /\ [][NextGrading]_vars

\* C17: a grading of submission sub by the administrator whose overrides name
\* answers that are not answers of sub (answers of another submission, or
\* none at all) succeeds, leaves every answer that is not one of sub's and
\* every other submission as they were, and marks sub graded.
C17_ForeignOverridesIgnored ==
  \A sub \in DOMAIN db.submissions, earned_map \in GradeBodies :
    LET r == GradeSubmission(db, "admin", sub, earned_map, now)
    IN DOMAIN earned_map \ AnswersOf(db, sub) # {} =>
         /\ r.result = "ok"
         /\ \A a \in DOMAIN db.answers \ AnswersOf(db, sub) :
              r.db.answers[a] = db.answers[a]
         /\ \A s \in DOMAIN db.submissions \ {sub} :
              r.db.submissions[s] = db.submissions[s]
         /\ r.db.submissions[sub].status = "graded"

\* a grading that wrote no answer has marked a submission graded, while the
\* other submission holds an ungraded answer that overrides could have named
C17_Witness ==
  /\ last.op = "grade" /\ last.result = "ok" /\ last.count = 0
  /\ db.submissions[last.sub].status = "graded"
  /\ AnswersOf(db, last.sub) # {}
  /\ \E s \in DOMAIN db.submissions \ {last.sub} :
       /\ db.submissions[s].status = "submitted"
       /\ \E a \in AnswersOf(db, s) :
            /\ db.answers[a].points_earned = 0
            /\ \E earned_map \in GradeBodies :
                 /\ a \in DOMAIN earned_map
                 /\ Clamp(earned_map[a], db.questions[db.answers[a].question].points) > 0
                 /\ GradeSubmission(db, "admin", last.sub, earned_map, now).db = db

====
